---- MODULE Spec2Model ----
(***************************************************************************)
(* A model of the two scripts of onepowerLS/pr-system:                     *)
(*   scripts/import_approvers.py  (the approver importer)                  *)
(*   scripts/read_excel.py        (the reference data exporter)            *)
(*                                                                         *)
(* Text is a sequence of one-character strings, so that lower(), strip(),  *)
(* replace(), the regular expressions and float() are computed character   *)
(* by character.  A spreadsheet cell is a record: na = TRUE is pandas'     *)
(* missing value (NaN/None), otherwise text holds the cell's string.       *)
(***************************************************************************)
EXTENDS Integers, Sequences, FiniteSets, TLC

VARIABLES
    pc,             \* position of the running script / function
    limit_str,      \* parse_approval_limit: the raw cell passed in
    limit,          \* parse_approval_limit: the value returned (or the error raised)
    name,           \* clean_name: the raw cell passed in
    slug,           \* clean_name: the value returned
    xlsx,           \* the workbook on disk: readable?, sheet name -> table
    old_json,       \* approvers.json as it was before the run
    approvers_json, \* approvers.json now
    json_opens,     \* how many times open('approvers.json', 'w') has run
    df,             \* importer: the rows of 'Approver List' once read
    row_i,          \* importer: index of the next row of df.iterrows()
    approver_list,  \* importer: the records built so far
    uuid_count,     \* importer: how many uuid4() values have been drawn
    returned,       \* importer: what read_approvers_from_excel returned
    sheet_i,        \* exporter: index of the next entry of sheets_to_process
    stdout,         \* what the script has printed, one entry per print()
    raised          \* an exception that left the script uncaught, or "none"

vars == <<pc, limit_str, limit, name, slug, xlsx, old_json, approvers_json, json_opens,
          df, row_i, approver_list, uuid_count, returned, sheet_i, stdout, raised>>

(***************************************************************************)
(* Bounds of the model.                                                    *)
(***************************************************************************)
MaxTokens == 3      \* a limit text is at most this many tokens of LimitTokens
MaxNameLen == 4     \* a display name is at most this many characters of NameChars
MaxRows == 2        \* the 'Approver List' sheet has at most this many rows

(***************************************************************************)
(* Text helpers: Python's str methods on sequences of characters.          *)
(***************************************************************************)
UpperCase == <<"A","B","C","D","E","F","G","H","I","J","K","L","M",
               "N","O","P","Q","R","S","T","U","V","W","X","Y","Z">>
LowerCase == <<"a","b","c","d","e","f","g","h","i","j","k","l","m",
               "n","o","p","q","r","s","t","u","v","w","x","y","z">>
Digits == <<"0","1","2","3","4","5","6","7","8","9">>
Whitespace == {" ", "\t"}

Range(f) == {f[x] : x \in DOMAIN f}
IsUpper(c) == c \in Range(UpperCase)
IsLower(c) == c \in Range(LowerCase)
IsDigit(c) == c \in Range(Digits)
IndexOf(seq, c) == CHOOSE k \in DOMAIN seq : seq[k] = c
DigitVal(c) == IndexOf(Digits, c) - 1

\* str.lower() / str.upper() of one character
lower_char(c) == IF IsUpper(c) THEN LowerCase[IndexOf(UpperCase, c)] ELSE c
upper_char(c) == IF IsLower(c) THEN UpperCase[IndexOf(LowerCase, c)] ELSE c

\* str.lower()
lower(s) == [k \in DOMAIN s |-> lower_char(s[k])]

\* str.strip(): drop the leading and the trailing whitespace
RECURSIVE lstrip(_)
lstrip(s) == IF s # <<>> /\ Head(s) \in Whitespace THEN lstrip(Tail(s)) ELSE s
RECURSIVE rstrip(_)
rstrip(s) == IF s # <<>> /\ s[Len(s)] \in Whitespace
             THEN rstrip(SubSeq(s, 1, Len(s) - 1)) ELSE s
strip(s) == rstrip(lstrip(s))

\* str.replace(old, new) for a one-character old and any text new
RECURSIVE replace(_, _, _)
replace(s, old, new) ==
    IF s = <<>> THEN <<>>
    ELSE (IF Head(s) = old THEN new ELSE <<Head(s)>>) \o replace(Tail(s), old, new)

\* c in s
Contains(s, c) == \E k \in DOMAIN s : s[k] = c

StartsWith(s, p) == Len(s) >= Len(p) /\ SubSeq(s, 1, Len(p)) = p

\* str.split(sep)[0]: the text before the first sep (all of it when there is none)
RECURSIVE split_first(_, _)
split_first(s, sep) ==
    IF s = <<>> \/ Head(s) = sep THEN <<>> ELSE <<Head(s)>> \o split_first(Tail(s), sep)

\* str.title(): a cased character is upper case after an uncased one (or at the
\* start) and lower case after a cased one
IsCased(c) == IsUpper(c) \/ IsLower(c)
title(s) == [k \in DOMAIN s |->
                IF k > 1 /\ IsCased(s[k - 1]) THEN lower_char(s[k]) ELSE upper_char(s[k])]

(***************************************************************************)
(* Cells and floats.                                                       *)
(***************************************************************************)
NA == [na |-> TRUE, text |-> <<>>]              \* pd.isna(cell)
Cell(s) == [na |-> FALSE, text |-> s]           \* a cell holding the string s

\* A Python float, kept as an exact decimal: (-1)^neg * mant * 10^exp with mant
\* free of trailing zeros (so equal values are equal records), or one of
\* inf, -inf, nan.  ValueError is float()'s exception, carried as a result.
\* binary64 rounding is not modelled: the properties below read only the kind,
\* the sign and integer values, which binary64 holds exactly below 2^53.
Num(neg, mant, exp) == [kind |-> "num", neg |-> neg, mant |-> mant, exp |-> exp]
Inf == [kind |-> "inf", neg |-> FALSE, mant |-> 0, exp |-> 0]       \* float('inf')
NegInf == [kind |-> "inf", neg |-> TRUE, mant |-> 0, exp |-> 0]
NaN == [kind |-> "nan", neg |-> FALSE, mant |-> 0, exp |-> 0]
ValueError == [kind |-> "ValueError", neg |-> FALSE, mant |-> 0, exp |-> 0]

RECURSIVE DigitsToNat(_)
DigitsToNat(ds) ==
    IF ds = <<>> THEN 0
    ELSE DigitsToNat(SubSeq(ds, 1, Len(ds) - 1)) * 10 + DigitVal(ds[Len(ds)])

RECURSIVE TrailingZeros(_)
TrailingZeros(ds) ==
    IF ds # <<>> /\ ds[Len(ds)] = "0"
    THEN 1 + TrailingZeros(SubSeq(ds, 1, Len(ds) - 1)) ELSE 0

\* the float written by the digits ds scaled by 10^exp
Decimal(neg, ds, exp) ==
    LET z == TrailingZeros(ds)
        m == DigitsToNat(SubSeq(ds, 1, Len(ds) - z))
    IN  IF m = 0 THEN Num(neg, 0, 0) ELSE Num(neg, m, exp + z)

\* float(s).  Python strips whitespace, reads an optional sign, then "inf",
\* "infinity", "nan" (any case) or a decimal literal; anything else raises
\* ValueError.  The exponent and digit-group-underscore forms are left out: no
\* text of LimitTokens puts "e" or "_" next to a digit.
IsDecimalLiteral(b) ==
    /\ \A k \in DOMAIN b : IsDigit(b[k]) \/ b[k] = "."
    /\ \E k \in DOMAIN b : IsDigit(b[k])
    /\ Cardinality({k \in DOMAIN b : b[k] = "."}) <= 1

py_float(s) ==
    LET t == strip(s)
        signed == t # <<>> /\ Head(t) \in {"+", "-"}
        neg == signed /\ Head(t) = "-"
        body == lower(IF signed THEN Tail(t) ELSE t)
        frac == IF Contains(body, ".") THEN Len(body) - IndexOf(body, ".") ELSE 0
    IN  IF body \in {<<"i","n","f">>, <<"i","n","f","i","n","i","t","y">>}
        THEN (IF neg THEN NegInf ELSE Inf)
        ELSE IF body = <<"n","a","n">> THEN NaN
        ELSE IF IsDecimalLiteral(body)
        THEN Decimal(neg, replace(body, ".", <<>>), 0 - frac)
        ELSE ValueError

\* x * 10^p for a float x (an exception raised by float() is raised on)
fmul(x, p) == IF x.kind = "num" /\ x.mant # 0 THEN Num(x.neg, x.mant, x.exp + p) ELSE x

(***************************************************************************)
(* scripts/import_approvers.py: parse_approval_limit                       *)
(***************************************************************************)
\* re.sub(r'^under\s+', '', s)
sub_under(s) ==
    IF StartsWith(s, <<"u","n","d","e","r">>) /\ Len(s) > 5 /\ s[6] \in Whitespace
    THEN lstrip(SubSeq(s, 6, Len(s))) ELSE s

\* re.search(r'\d+', s).group(): the first maximal run of digits (<<>>: no match)
RECURSIVE DigitPrefix(_)
DigitPrefix(s) ==
    IF s # <<>> /\ IsDigit(Head(s)) THEN <<Head(s)>> \o DigitPrefix(Tail(s)) ELSE <<>>
RECURSIVE search_digits(_)
search_digits(s) ==
    IF s = <<>> THEN <<>>
    ELSE IF IsDigit(Head(s)) THEN DigitPrefix(s) ELSE search_digits(Tail(s))

\* parse_approval_limit without `limit_str.replace(',', '')`
parse_approval_limit_keeps_commas(cell) ==
    IF cell.na THEN Inf
    ELSE LET s3 == sub_under(strip(lower(cell.text)))
             match == search_digits(s3)
         IN  IF Contains(s3, "k") THEN fmul(py_float(replace(s3, "k", <<>>)), 3)
             ELSE IF Contains(s3, "m") THEN fmul(py_float(replace(s3, "m", <<>>)), 6)
             ELSE IF match # <<>> THEN Decimal(FALSE, match, 0)
             ELSE Inf

parse_approval_limit(cell) ==
    IF cell.na THEN Inf
    ELSE LET s1 == strip(lower(cell.text))
             s2 == sub_under(s1)
             s3 == replace(s2, ",", <<>>)
             match == search_digits(s3)
         IN  IF Contains(s3, "k") THEN fmul(py_float(replace(s3, "k", <<>>)), 3)
             ELSE IF Contains(s3, "m") THEN fmul(py_float(replace(s3, "m", <<>>)), 6)
             ELSE IF match # <<>> THEN Decimal(FALSE, match, 0)
             ELSE Inf

(***************************************************************************)
(* The limit texts the parser is run on: every concatenation of at most    *)
(* MaxTokens tokens, and the missing cell.                                 *)
(***************************************************************************)
LimitTokens ==
    { <<"U","n","d","e","r"," ">>, <<" ">>, <<"1">>, <<"0">>, <<",">>, <<",","0","0","0">>,
      <<".">>, <<"k">>, <<"M">>, <<"-">>, <<"n","a","n">>, <<"i","n","f">>, <<"x">> }

RECURSIVE Flatten(_)
Flatten(ts) == IF ts = <<>> THEN <<>> ELSE Head(ts) \o Flatten(Tail(ts))

LimitTexts == {Flatten(ts) : ts \in UNION {[1..n -> LimitTokens] : n \in 0..MaxTokens}}
LimitCells == {NA} \cup {Cell(s) : s \in LimitTexts}

Idle == <<>>

InitParse ==
    /\ pc = "parse_call"
    /\ limit_str \in LimitCells
    /\ limit = Idle
    /\ name = Idle /\ slug = Idle /\ xlsx = Idle /\ old_json = Idle
    /\ approvers_json = Idle /\ json_opens = 0 /\ df = Idle /\ row_i = 0
    /\ approver_list = Idle /\ uuid_count = 0 /\ returned = Idle /\ sheet_i = 0
    /\ stdout = Idle /\ raised = "none"

\* one call of parse_approval_limit(limit_str)
ParseLimit ==
    /\ pc = "parse_call"
    /\ limit' = parse_approval_limit(limit_str)
    /\ pc' = "parse_return"
    /\ UNCHANGED <<limit_str, name, slug, xlsx, old_json, approvers_json, json_opens, df,
                   row_i, approver_list, uuid_count, returned, sheet_i, stdout, raised>>

NextParse == ParseLimit
SpecParse == InitParse /\ [][NextParse]_vars

(***************************************************************************)
(* scripts/read_excel.py: clean_name                                       *)
(***************************************************************************)
\* clean_name without `.replace('/', '_')`
clean_name_keeps_slash(cell) ==
    IF cell.na THEN <<>>
    ELSE replace(replace(lower(strip(cell.text)), " ", <<"_">>), "&", <<"a","n","d">>)

clean_name(cell) ==
    IF cell.na THEN <<>>
    ELSE replace(replace(replace(lower(strip(cell.text)), " ", <<"_">>),
                         "/", <<"_">>),
                 "&", <<"a","n","d">>)

\* The display names clean_name is run on: every text of at most MaxNameLen
\* characters of NameChars, and the missing cell.
NameChars == {" ", "\t", "/", "&", "A", "b", "_"}
NameTexts == UNION {[1..n -> NameChars] : n \in 0..MaxNameLen}
NameCells == {NA} \cup {Cell(s) : s \in NameTexts}

InitClean ==
    /\ pc = "clean_call"
    /\ name \in NameCells
    /\ slug = Idle
    /\ limit_str = Idle /\ limit = Idle /\ xlsx = Idle /\ old_json = Idle
    /\ approvers_json = Idle /\ json_opens = 0 /\ df = Idle /\ row_i = 0
    /\ approver_list = Idle /\ uuid_count = 0 /\ returned = Idle /\ sheet_i = 0
    /\ stdout = Idle /\ raised = "none"

\* one call of clean_name(name)
CleanName ==
    /\ pc = "clean_call"
    /\ slug' = clean_name(name)
    /\ pc' = "clean_return"
    /\ UNCHANGED <<limit_str, limit, name, xlsx, old_json, approvers_json, json_opens, df,
                   row_i, approver_list, uuid_count, returned, sheet_i, stdout, raised>>

NextClean == CleanName
SpecClean == InitClean /\ [][NextClean]_vars

(***************************************************************************)
(* The workbook, the JSON file and standard output.                        *)
(***************************************************************************)
\* a workbook file: pandas can open it or not; sheets maps each sheet name it
\* holds to the rows of that sheet
Workbook(readable, sheets) == [readable |-> readable, sheets |-> sheets]
Unreadable == Workbook(FALSE, <<>>)
HasSheet(wb, sheet_name) == wb.readable /\ sheet_name \in DOMAIN wb.sheets

\* approvers.json: absent, or holding {"approvers": [...]}
JsonFile(approvers) == [exists |-> TRUE, approvers |-> approvers]
NoFile == [exists |-> FALSE, approvers |-> <<>>]

\* one print() call
Line(what, about, items) == [what |-> what, about |-> about, items |-> items]

(***************************************************************************)
(* scripts/import_approvers.py: read_approvers_from_excel and __main__     *)
(***************************************************************************)
Row(email, nm, department, active, lim) ==
    [Email |-> email, Name |-> nm, Department |-> department, Active |-> active,
     Limit |-> lim]

\* row['Name'] if pd.notna(row['Name'])
\*   else row['Email'].split('@')[0].replace('.', ' ').title()
approver_name(row) ==
    IF ~row.Name.na THEN row.Name.text
    ELSE title(replace(split_first(row.Email.text, "@"), ".", <<" ">>))

\* is_active with the column wired through: `... else False`
is_active_from_column(row) ==
    IF ~row.Active.na /\ lower(row.Active.text) = <<"y">> THEN TRUE ELSE FALSE

\* True if pd.notna(status) and str(status).lower() == 'y' else True
is_active(row) ==
    IF ~row.Active.na /\ lower(row.Active.text) = <<"y">> THEN TRUE ELSE TRUE

\* the dictionary built for one row; id is the uuid4() drawn for it
approver(row, id, approval_limit) ==
    [id |-> id,
     name |-> strip(approver_name(row)),
     email |-> lower(strip(row.Email.text)),
     role |-> "APPROVER",
     department |-> IF ~row.Department.na THEN Cell(strip(row.Department.text)) ELSE NA,
     isActive |-> is_active(row),
     approvalLimit |-> approval_limit]

\* The rows of 'Approver List': the cells the properties read (Email, Approval
\* Limit, Active Status) in every combination on a row with a name and a
\* department, and a regular row with the name or the department missing.
Emails == {NA, Cell(<<" ", "\t">>), Cell(<<" ","A",".","b","@","X"," ">>)}
Limits == {Cell(<<"1","k">>), Cell(<<"x","k">>)}
Statuses == {NA, Cell(<<"Y">>), Cell(<<"N">>)}
Names == {NA, Cell(<<" ","A","l">>)}
Departments == {NA, Cell(<<"I","T"," ">>)}
ApproverRows ==
    {Row(e, Cell(<<" ","A","l">>), Cell(<<"I","T"," ">>), a, l) :
        e \in Emails, a \in Statuses, l \in Limits}
    \cup {Row(Cell(<<" ","A",".","b","@","X"," ">>), n, d, Cell(<<"Y">>), NA) :
        n \in Names, d \in Departments}
ApproverTables == UNION {[1..n -> ApproverRows] : n \in 0..MaxRows}

ImporterWorkbooks ==
    {Unreadable}
    \cup {Workbook(TRUE, [s \in S |-> <<>>]) : S \in SUBSET {"Configuration"}}
    \cup {Workbook(TRUE, [s \in S \cup {"Approver List"} |->
                            IF s = "Approver List" THEN t ELSE <<>>]) :
            S \in SUBSET {"Configuration"}, t \in ApproverTables}

\* an approvers.json left by an earlier run
StaleJson == JsonFile(<<approver(Row(Cell(<<"o","@","l","d">>), NA, NA, NA, NA), 0, Inf)>>)

InitImport ==
    /\ pc = "import_start"
    /\ xlsx \in ImporterWorkbooks
    /\ old_json \in {NoFile, StaleJson}
    /\ approvers_json = old_json
    /\ json_opens = 0
    /\ df = <<>> /\ row_i = 0 /\ approver_list = <<>> /\ uuid_count = 0
    /\ returned = <<>> /\ sheet_i = 0 /\ stdout = <<>> /\ raised = "none"
    /\ limit_str = Idle /\ limit = Idle /\ name = Idle /\ slug = Idle

\* get_approval_rules(file_path): the 'Configuration' sheet is printed, or the
\* failure to read it; either way {} is returned and the run goes on
GetApprovalRules ==
    /\ pc = "import_start"
    /\ stdout' = stdout \o
          (IF HasSheet(xlsx, "Configuration")
           THEN <<Line("Configuration sheet columns", "Configuration", <<>>),
                  Line("Configuration data", "Configuration", <<>>)>>
           ELSE <<Line("Error reading configuration", "Configuration", <<>>)>>)
    /\ pc' = "read_sheet"
    /\ UNCHANGED <<limit_str, limit, name, slug, xlsx, old_json, approvers_json, json_opens,
                   df, row_i, approver_list, uuid_count, returned, sheet_i, raised>>

\* an except clause that returns the records built before the failure
ImportExcept_partial ==
    /\ stdout' = Append(stdout, Line("Error reading Excel file", "Approver List", <<>>))
    /\ returned' = approver_list
    /\ pc' = "main"

\* the except clause of read_approvers_from_excel: print and return []
ImportExcept ==
    /\ stdout' = Append(stdout, Line("Error reading Excel file", "Approver List", <<>>))
    /\ returned' = <<>>
    /\ pc' = "main"

\* df = pd.read_excel(file_path, sheet_name='Approver List')
ReadApproverList ==
    /\ pc = "read_sheet"
    /\ IF HasSheet(xlsx, "Approver List")
       THEN /\ df' = xlsx.sheets["Approver List"]
            /\ stdout' = Append(stdout, Line("Columns found in Approver List", "Approver List", <<>>))
            /\ approver_list' = <<>>
            /\ row_i' = 1
            /\ pc' = "iterrows"
            /\ UNCHANGED returned
       ELSE /\ ImportExcept
            /\ UNCHANGED <<df, approver_list, row_i>>
    /\ UNCHANGED <<limit_str, limit, name, slug, xlsx, old_json, approvers_json, json_opens,
                   uuid_count, sheet_i, raised>>

\* approver_list.insert(0, approver)
list_prepend(list, item) == <<item>> \o list

\* approver_list.append(approver)
list_append(list, item) == Append(list, item)

\* one pass of the body of `for _, row in df.iterrows()`
NextRow ==
    /\ pc = "iterrows"
    /\ row_i <= Len(df)
    /\ LET row == df[row_i]
           approval_limit == parse_approval_limit(row.Limit)
       IN  IF row.Email.na
           THEN /\ row_i' = row_i + 1
                /\ UNCHANGED <<approver_list, uuid_count, returned, stdout, pc>>
           ELSE IF approval_limit.kind = "ValueError"
           THEN /\ ImportExcept
                /\ UNCHANGED <<approver_list, uuid_count, row_i>>
           ELSE /\ approver_list' =
                      list_append(approver_list, approver(row, uuid_count + 1, approval_limit))
                /\ uuid_count' = uuid_count + 1
                /\ row_i' = row_i + 1
                /\ UNCHANGED <<returned, stdout, pc>>
    /\ UNCHANGED <<limit_str, limit, name, slug, xlsx, old_json, approvers_json, json_opens,
                   df, sheet_i, raised>>

\* after the loop: open('approvers.json', 'w'), json.dump, print, return
DumpJson ==
    /\ pc = "iterrows"
    /\ row_i > Len(df)
    /\ approvers_json' = JsonFile(approver_list)
    /\ json_opens' = json_opens + 1
    /\ stdout' = Append(stdout, Line("Successfully processed", "approvers", <<Len(approver_list)>>))
    /\ returned' = approver_list
    /\ pc' = "main"
    /\ UNCHANGED <<limit_str, limit, name, slug, xlsx, old_json, df, row_i, approver_list,
                   uuid_count, sheet_i, raised>>

\* __main__: the summary printed from the returned list
MainPrint ==
    /\ pc = "main"
    /\ stdout' = stdout \o <<Line("Approvers processed:", "approvers", <<>>)>>
                        \o [k \in DOMAIN returned |->
                              Line("approver", "approvers", <<returned[k].email>>)]
    /\ pc' = "import_done"
    /\ UNCHANGED <<limit_str, limit, name, slug, xlsx, old_json, approvers_json, json_opens,
                   df, row_i, approver_list, uuid_count, returned, sheet_i, raised>>

NextImport == GetApprovalRules \/ ReadApproverList \/ NextRow \/ DumpJson \/ MainPrint
SpecImport == InitImport /\ [][NextImport]_vars

(***************************************************************************)
(* scripts/read_excel.py: the module's top-level code                      *)
(***************************************************************************)
\* str(cell): pandas' missing value prints as "nan"
py_str(cell) == IF cell.na THEN <<"n","a","n">> ELSE cell.text

\* a row of a reference sheet: key is the display-name column, active the
\* status column, code the 'Code' / 'Code ' / 'Registration Status' column
RefRow(key, active, code) == [key |-> key, active |-> active, code |-> code]

Organization == <<"1","P","W","R"," ","L","E","S","O","T","H","O">>

\* sheets_to_process, in the order of the dictionary: sheet name, array name,
\* and the fields each literal has besides id, name and isActive
sheets_to_process ==
    << [sheet |-> "Department List",    var |-> "departments",       extra |-> "none"],
       [sheet |-> "Project Categories", var |-> "projectCategories", extra |-> "none"],
       [sheet |-> "Site List",          var |-> "sites",             extra |-> "code_org"],
       [sheet |-> "Expense Type",       var |-> "expenseTypes",      extra |-> "code"],
       [sheet |-> "Vehicle List",       var |-> "vehicles",          extra |-> "registration_org"],
       [sheet |-> "Vendor List",        var |-> "vendors",           extra |-> "org"],
       [sheet |-> "Org List",           var |-> "organizations",     extra |-> "none"] >>

\* the literal one row is formatted as
ref_item(extra, row) ==
    [id |-> clean_name(row.key),
     name |-> py_str(row.key),
     isActive |-> (row.active = Cell(<<"Y">>)),
     fields |->
        CASE extra = "none" -> <<>>
          [] extra = "code_org" -> <<<<"code", py_str(row.code)>>, <<"organization", Organization>>>>
          [] extra = "code" -> <<<<"code", IF ~row.code.na THEN py_str(row.code) ELSE <<>>>>>>
          [] extra = "registration_org" ->
                <<<<"registration", IF ~row.code.na THEN py_str(row.code) ELSE <<>>>>,
                  <<"organization", Organization>>>>
          [] extra = "org" -> <<<<"organization", Organization>>>>]

\* the sheet's lambda: one literal per row whose key cell is not missing
RECURSIVE processor(_, _)
processor(extra, rows) ==
    IF rows = <<>> THEN <<>>
    ELSE (IF ~Head(rows).key.na THEN <<ref_item(extra, Head(rows))>> ELSE <<>>)
         \o processor(extra, Tail(rows))

\* format_ts_array(name, items), as printed by one print()
format_ts_array(var, items) == Line("export const", var, items)

currencies == <<"lsl", "zar", "usd", "eur", "gbp">>

\* The tables a reference sheet may hold.
RefTables ==
    { << RefRow(Cell(<<"A"," ","&","b">>), Cell(<<"Y">>), Cell(<<"C">>)) >>,
      << RefRow(NA, Cell(<<"Y">>), NA),
         RefRow(Cell(<<"b","/","A">>), Cell(<<"N">>), NA) >> }
SheetNames == {sheets_to_process[k].sheet : k \in DOMAIN sheets_to_process}
ExporterWorkbooks ==
    {Unreadable}
    \cup {Workbook(TRUE, f) : f \in UNION {[S -> RefTables] : S \in SUBSET SheetNames}}

InitExport ==
    /\ pc = "export_start"
    /\ xlsx \in ExporterWorkbooks
    /\ old_json = NoFile /\ approvers_json = NoFile /\ json_opens = 0
    /\ df = <<>> /\ row_i = 0 /\ approver_list = <<>> /\ uuid_count = 0
    /\ returned = <<>> /\ sheet_i = 0 /\ stdout = <<>> /\ raised = "none"
    /\ limit_str = Idle /\ limit = Idle /\ name = Idle /\ slug = Idle

\* xls = pd.ExcelFile(excel_file), outside any try, then the header comment
ExportOpen ==
    /\ pc = "export_start"
    /\ IF xlsx.readable
       THEN /\ stdout' = Append(stdout, Line("// Local reference data from Excel file", "", <<>>))
            /\ sheet_i' = 1
            /\ pc' = "sheets"
            /\ UNCHANGED raised
       ELSE /\ raised' = "Exception"
            /\ pc' = "crashed"
            /\ UNCHANGED <<stdout, sheet_i>>
    /\ UNCHANGED <<limit_str, limit, name, slug, xlsx, old_json, approvers_json, json_opens,
                   df, row_i, approver_list, uuid_count, returned>>

\* the loop body with a `break` after the warning for a missing sheet
ExportSheet_break ==
    /\ pc = "sheets"
    /\ sheet_i <= Len(sheets_to_process)
    /\ LET entry == sheets_to_process[sheet_i]
       IN  IF entry.sheet \in DOMAIN xlsx.sheets
           THEN /\ stdout' = Append(stdout, format_ts_array(entry.var,
                                processor(entry.extra, xlsx.sheets[entry.sheet])))
                /\ sheet_i' = sheet_i + 1
           ELSE /\ stdout' = Append(stdout, Line("// Warning: Sheet not found", entry.sheet, <<>>))
                /\ sheet_i' = Len(sheets_to_process) + 1
    /\ UNCHANGED <<pc, limit_str, limit, name, slug, xlsx, old_json, approvers_json,
                   json_opens, df, row_i, approver_list, uuid_count, returned, raised>>

\* one pass of the body of `for sheet_name, (var_name, processor) in ...`
ExportSheet ==
    /\ pc = "sheets"
    /\ sheet_i <= Len(sheets_to_process)
    /\ LET entry == sheets_to_process[sheet_i]
       IN  stdout' = Append(stdout,
              IF entry.sheet \in DOMAIN xlsx.sheets
              THEN format_ts_array(entry.var, processor(entry.extra, xlsx.sheets[entry.sheet]))
              ELSE Line("// Warning: Sheet not found", entry.sheet, <<>>))
    /\ sheet_i' = sheet_i + 1
    /\ UNCHANGED <<pc, limit_str, limit, name, slug, xlsx, old_json, approvers_json,
                   json_opens, df, row_i, approver_list, uuid_count, returned, raised>>

\* after the loop: the fixed currency array
ExportCurrencies ==
    /\ pc = "sheets"
    /\ sheet_i > Len(sheets_to_process)
    /\ stdout' = Append(stdout, format_ts_array("currencies", currencies))
    /\ pc' = "export_done"
    /\ UNCHANGED <<limit_str, limit, name, slug, xlsx, old_json, approvers_json, json_opens,
                   df, row_i, approver_list, uuid_count, returned, sheet_i, raised>>

NextExport == ExportOpen \/ ExportSheet \/ ExportCurrencies
SpecExport == InitExport /\ [][NextExport]_vars

(***************************************************************************)
(* The two scripts: a run is one of them, on some workbook.                *)
(***************************************************************************)
Init == InitImport \/ InitExport
Next == GetApprovalRules \/ ReadApproverList \/ NextRow \/ DumpJson \/ MainPrint
        \/ ExportOpen \/ ExportSheet \/ ExportCurrencies
Spec == Init /\ [][Next]_vars

(***************************************************************************)
(* Properties of parse_approval_limit, checked under SpecParse.            *)
(***************************************************************************)
HasDigit(s) == \E k \in DOMAIN s : IsDigit(s[k])

\* The limit texts of the documented form: an optional "under " qualifier, a
\* number written in digits with commas between them, an optional k or m.
UnderQualifier == <<"u","n","d","e","r"," ">>
Unqualified(t) ==
    IF StartsWith(t, UnderQualifier) THEN SubSeq(t, Len(UnderQualifier) + 1, Len(t)) ELSE t
Suffixed(t) == t # <<>> /\ t[Len(t)] \in {"k", "m"}
Unsuffixed(t) == IF Suffixed(t) THEN SubSeq(t, 1, Len(t) - 1) ELSE t
IsGroupedNumber(n) ==
    /\ n # <<>>
    /\ IsDigit(n[1]) /\ IsDigit(n[Len(n)])
    /\ \A k \in DOMAIN n : IsDigit(n[k]) \/ n[k] = ","
LimitBody(text) == Unqualified(lower(strip(text)))
InLimitForm(text) == IsGroupedNumber(Unsuffixed(LimitBody(text)))
\* N, N * 1,000 or N * 1,000,000 for a text of that form
LimitOfForm(text) ==
    LET b == LimitBody(text)
    IN  Decimal(FALSE, SelectSeq(Unsuffixed(b), IsDigit),
                IF ~Suffixed(b) THEN 0 ELSE IF b[Len(b)] = "k" THEN 3 ELSE 6)

\* C1: whenever parse_approval_limit returns a value for a cell that is not
\* missing, the value is float('inf') or a finite number >= 0: never negative,
\* never NaN, the k and m branches included.
C1_LimitUnlimitedOrNonNegative ==
    (pc = "parse_return" /\ ~limit_str.na /\ limit.kind # "ValueError")
        => \/ limit = Inf
           \/ limit.kind = "num" /\ ~(limit.neg /\ limit.mant # 0)

\* C2: for a cell that is not missing and holds no digit at all,
\* parse_approval_limit returns float('inf') and raises nothing.
C2_NoDigitsFallBackToUnlimited ==
    (pc = "parse_return" /\ ~limit_str.na /\ ~HasDigit(limit_str.text))
        => limit = Inf

\* C3: a text of the documented form parses to N, N * 1,000 (suffix k) or
\* N * 1,000,000 (suffix m); a missing or blank cell parses to float('inf').
C3_DocumentedFormsParse ==
    pc = "parse_return" =>
        /\ (limit_str.na \/ strip(limit_str.text) = <<>>) => limit = Inf
        /\ (~limit_str.na /\ InLimitForm(limit_str.text))
              => limit = LimitOfForm(limit_str.text)

\* a qualified or comma-grouped number with a suffix has been parsed
C3_Witness ==
    /\ pc = "parse_return"
    /\ ~limit_str.na
    /\ InLimitForm(limit_str.text)
    /\ Contains(limit_str.text, ",")
    /\ Suffixed(LimitBody(limit_str.text))
    /\ limit = Num(FALSE, 1, 6)

(***************************************************************************)
(* Properties of clean_name, checked under SpecClean.                      *)
(***************************************************************************)
\* what one character of the trimmed name becomes in the slug
SlugOfChar(c) ==
    IF c \in {" ", "/"} THEN <<"_">>
    ELSE IF c = "&" THEN <<"a","n","d">>
    ELSE <<lower_char(c)>>
SlugOf(text) == LET t == strip(text) IN Flatten([k \in DOMAIN t |-> SlugOfChar(t[k])])

\* C9: the slug is the trimmed, lowercased name with every space and "/"
\* replaced by "_" and every "&" by "and"; it holds no space, "/", "&" or upper
\* case letter, and clean_name of a slug is that slug.
C9_SlugNormalized ==
    /\ clean_name(Cell(<<"F","i","n","a","n","c","e"," ","&"," ","A","d","m","i","n">>))
          = <<"f","i","n","a","n","c","e","_","a","n","d","_","a","d","m","i","n">>
    /\ clean_name(Cell(<<"H","e","a","d"," ","O","f","f","i","c","e">>))
          = <<"h","e","a","d","_","o","f","f","i","c","e">>
    /\ (pc = "clean_return" /\ ~name.na) =>
          /\ slug = SlugOf(name.text)
          /\ \A k \in DOMAIN slug : slug[k] \notin {" ", "/", "&"} /\ ~IsUpper(slug[k])
          /\ clean_name(Cell(slug)) = slug

\* a name with a space, a slash, an ampersand and an upper case letter was slugged
C9_Witness ==
    /\ pc = "clean_return"
    /\ name = Cell(<<" ", "A", "/", "&">>)
    /\ slug = <<"a", "_", "a", "n", "d">>

(***************************************************************************)
(* Properties of the importer, checked under SpecImport.                   *)
(***************************************************************************)
HasEmail(row) == ~row.Email.na
IsBlank(cell) == cell.na \/ strip(cell.text) = <<>>
Logged(what) == \E k \in DOMAIN stdout : stdout[k].what = what
ImportReturned == pc \in {"main", "import_done"}

\* a row whose fields are well-formed: the email is missing or has content, the
\* limit is missing or of the documented form
WellFormedRow(row) ==
    /\ row.Email.na \/ ~IsBlank(row.Email)
    /\ row.Limit.na \/ InLimitForm(row.Limit.text)

\* a row whose processing raises
RowRaises(row) == HasEmail(row) /\ parse_approval_limit(row.Limit) = ValueError

\* C4: every record produced has an email that is non-empty, lower case and
\* without leading or trailing whitespace.
C4_EmailNonEmptyLowerTrimmed ==
    \A k \in DOMAIN approver_list :
        LET e == approver_list[k].email
        IN  /\ e # <<>>
            /\ \A j \in DOMAIN e : ~IsUpper(e[j])
            /\ e[1] \notin Whitespace /\ e[Len(e)] \notin Whitespace

\* C5: on a table of well-formed rows, the returned list and the 'approvers'
\* array of approvers.json hold exactly one record per row with an email, in
\* the order of the rows.
C5_OneRecordPerRowWithEmail ==
    (ImportReturned /\ HasSheet(xlsx, "Approver List")
       /\ \A k \in DOMAIN df : WellFormedRow(df[k]))
    => LET kept == SelectSeq(df, HasEmail)
       IN  /\ Len(returned) = Len(kept)
           /\ Len(returned) = Cardinality({k \in DOMAIN df : ~IsBlank(df[k].Email)})
           /\ \A k \in DOMAIN kept :
                 /\ returned[k].email = lower(strip(kept[k].Email.text))
                 /\ returned[k].department.na = kept[k].Department.na
                 /\ returned[k].approvalLimit =
                       (IF kept[k].Limit.na THEN Inf ELSE LimitOfForm(kept[k].Limit.text))
           /\ approvers_json = JsonFile(returned)

\* two well-formed rows with different limits were both turned into records
C5_Witness ==
    /\ pc = "import_done"
    /\ Len(df) = 2
    /\ \A k \in DOMAIN df : WellFormedRow(df[k]) /\ HasEmail(df[k])
    /\ df[1].Limit # df[2].Limit
    /\ Len(returned) = 2
    /\ approvers_json = JsonFile(returned)

\* C8: every record produced has isActive = True, whatever the row's
\* 'Active Status (Y/N)' cell holds.
C8_AlwaysActive ==
    /\ \A k \in DOMAIN approver_list : approver_list[k].isActive = TRUE
    /\ \A k \in DOMAIN returned : returned[k].isActive = TRUE

\* a record was built from a row whose status cell is "N"
C8_Witness ==
    /\ pc = "iterrows"
    /\ row_i = 2
    /\ df[1].Active = Cell(<<"N">>)
    /\ Len(approver_list) = 1

\* C10: when a row raises, the run returns [] and approvers.json is neither
\* opened nor changed, whatever records were built before; the file is opened
\* at most once, and only after the last row.
C10_AllOrNothing ==
    /\ json_opens <= 1
    /\ json_opens = 1 => (ImportReturned /\ row_i > Len(df))
    /\ approvers_json # old_json => json_opens = 1
    /\ (ImportReturned /\ \E k \in DOMAIN df : RowRaises(df[k]))
          => /\ returned = <<>>
             /\ json_opens = 0
             /\ approvers_json = old_json

\* a row raised after an earlier row had been turned into a record, with an
\* approvers.json of an earlier run on disk
C10_Witness ==
    /\ pc = "main"
    /\ Len(df) = 2 /\ RowRaises(df[2])
    /\ Len(approver_list) = 1
    /\ returned = <<>>
    /\ old_json = StaleJson /\ approvers_json = StaleJson

(***************************************************************************)
(* Properties of both scripts (Spec) and of the exporter (SpecExport).     *)
(***************************************************************************)
\* C6: in both scripts a failure to read the tables (a missing sheet, a file
\* that cannot be opened) is caught, logged to standard output and ends the
\* run with an empty result; it never leaves the script as an exception.
C6_ReadFailureCaught ==
    /\ (ImportReturned /\ ~HasSheet(xlsx, "Approver List"))
          => /\ raised = "none"
             /\ Logged("Error reading Excel file")
             /\ returned = <<>>
    /\ (pc \in {"sheets", "export_done", "crashed"} /\ ~xlsx.readable)
          => /\ raised = "none"
             /\ stdout # <<>>

\* the line printed for entry k of sheets_to_process
IsSheetLine(line, k) ==
    LET entry == sheets_to_process[k]
    IN  IF entry.sheet \in DOMAIN xlsx.sheets
        THEN line.what = "export const" /\ line.about = entry.var
        ELSE line.what = "// Warning: Sheet not found" /\ line.about = entry.sheet
IsCurrencyLine(line) == line.what = "export const" /\ line.about = "currencies"

\* C7: whatever subset of the seven sheets the workbook holds, the exporter
\* prints, in the configured order, one array per sheet present and one warning
\* per sheet missing; after a missing sheet the next sheet is still the next to
\* be processed; the currency array is printed once, after all of them.
C7_OneLinePerSheetInOrder ==
    (pc \in {"sheets", "export_done"}) =>
        /\ sheet_i \in 1..(Len(sheets_to_process) + 1)
        /\ Len(stdout) = sheet_i + (IF pc = "export_done" THEN 1 ELSE 0)
        /\ \A k \in 1..(sheet_i - 1) : IsSheetLine(stdout[k + 1], k)
        /\ \A k \in 1..sheet_i : k <= Len(stdout) => ~IsCurrencyLine(stdout[k])
        /\ pc = "export_done" =>
              /\ sheet_i = Len(sheets_to_process) + 1
              /\ IsCurrencyLine(stdout[Len(stdout)])

\* the run ended on a workbook lacking the first sheet and holding the last
C7_Witness ==
    /\ pc = "export_done"
    /\ "Department List" \notin DOMAIN xlsx.sheets
    /\ "Org List" \in DOMAIN xlsx.sheets
    /\ stdout[2].what = "// Warning: Sheet not found"
    /\ stdout[8].about = "organizations"

====
